---------------------------- MODULE Spec2Model ----------------------------
(***************************************************************************)
(* Model of src/lambda_function.py: an AWS Lambda handler that dispatches  *)
(* on the HTTP method of an API Gateway proxy event and issues at most one *)
(* call to a DynamoDB table keyed by student_id.                           *)
(*                                                                         *)
(* Python values are records [t |-> <python type>, v |-> <value>]; numbers *)
(* are carried as their decimal text so that every v is a string, a dict   *)
(* (a function from keys to values) or a list.  JSON texts are records     *)
(* [syntax |-> ..., value |-> ...]: what the text is, and what it parses   *)
(* to.  The table holds DynamoDB attribute values [t |-> "S" | "N", ...].  *)
(***************************************************************************)
EXTENDS Integers, Sequences, FiniteSets, TLC

\* ---------------------------------------------------------------- bounds
\* Invocations in one run of the model.
MaxRequests == 4
\* Invocations of each concurrent caller in SpecConc.
MaxInvocations == 2

\* ------------------------------------------------------- python values
PyStr(s) == [t |-> "str", v |-> s]
PyInt(s) == [t |-> "int", v |-> s]
PyFloat(s) == [t |-> "float", v |-> s]
PyDecimal(s) == [t |-> "Decimal", v |-> s]
Dict(d) == [t |-> "dict", v |-> d]
List(l) == [t |-> "list", v |-> l]
None == [t |-> "NoneType", v |-> ""]
EmptyMap == [k \in {} |-> None]

\* Python truthiness, as `not x` and `x or y` use it.
Truthy(x) ==
    CASE x.t = "NoneType" -> FALSE
      [] x.t = "str" -> x.v # ""
      [] x.t \in {"int", "float", "Decimal"} -> x.v \notin {"0", "0.0"}
      [] x.t = "dict" -> DOMAIN x.v # {}
      [] x.t = "list" -> Len(x.v) > 0
      [] OTHER -> TRUE

\* dict.get(k) and dict.get(k, default) on a TLA+ function.
GetOr(d, k, default) == IF k \in DOMAIN d THEN d[k] ELSE default
Get(d, k) == GetOr(d, k, None)

\* x or y
Or(x, y) == IF Truthy(x) THEN x ELSE y

\* ------------------------------------------------------------ JSON text
EmptyStr == [syntax |-> "", value |-> None]
JsonText(x) == [syntax |-> "json", value |-> x]
Malformed == [syntax |-> "malformed", value |-> None]
\* A text is a Python str: falsy exactly when it is "".
TextOr(body, default) ==
    IF body = None \/ body = EmptyStr THEN default ELSE body

\* json.loads: the parsed value, or JSONDecodeError.
json_loads(text) ==
    IF text.syntax = "json"
    THEN [raised |-> FALSE, msg |-> "", value |-> text.value]
    ELSE [raised |-> TRUE, msg |-> "Expecting value: line 1 column 1 (char 0)",
          value |-> None]

\* A Decimal anywhere in x: json.dumps has no encoder for it.
HasDecimal(x) ==
    \/ x.t = "Decimal"
    \/ /\ x.t = "dict"
       /\ \E k \in DOMAIN x.v :
            \/ x.v[k].t = "Decimal"
            \/ /\ x.v[k].t = "dict"
               /\ \E j \in DOMAIN x.v[k].v : x.v[k].v[j].t = "Decimal"

DecimalMsg == "Object of type Decimal is not JSON serializable"

\* json.dumps(x), for an x it can encode.
json_dumps(x) == JsonText(x)

\* ------------------------------------------------------------- inputs
Ids == {"s1", "s2"}
\* Field names made of letters, digits and underscores only, and one that
\* is not.
WordNames == {"name", "grade"}
FieldNames == WordNames \cup {"home-room"}
FieldValues(k) ==
    CASE k = "name" -> {PyStr("Ann"), PyStr("Bob")}
      [] k = "grade" -> {PyStr("A"), PyInt("1"), PyFloat("1.5")}
      [] OTHER -> {PyStr("7B")}
IdValues == {PyStr(s) : s \in Ids} \cup {PyStr(""), PyInt("5")}

Opt(k, vs) == {EmptyMap} \cup {[x \in {k} |-> v] : v \in vs}

\* The non-key fields of a body: any of the word-named fields, or the other
\* one alone.
BodyShapes == (SUBSET WordNames) \cup {{"home-room"}}
NonKeyParts ==
    UNION {{f \in [D -> UNION {FieldValues(k) : k \in D}] :
              \A k \in D : f[k] \in FieldValues(k)} : D \in BodyShapes}
Payloads == {kp @@ f : kp \in Opt("student_id", IdValues), f \in NonKeyParts}

\* The body of an event: absent, "", malformed text, "[]", or an object.
Bodies ==
    {EmptyStr, Malformed, JsonText(List(<<>>))}
        \cup {JsonText(Dict(p)) : p \in Payloads}
\* queryStringParameters: null, or a mapping of parameter names to strings.
Queries ==
    {None, Dict(EmptyMap)}
        \cup {Dict([x \in {"student_id"} |-> PyStr(s)]) : s \in Ids \cup {""}}

\* Events by the branch that reads them; a key the branch never reads is
\* left out of the event.
BodyEvents(m) ==
    {[x \in {"httpMethod"} |-> PyStr(m)] @@ b : b \in Opt("body", Bodies)}
QueryEvents(m) ==
    {[x \in {"httpMethod"} |-> PyStr(m)] @@ q :
        q \in Opt("queryStringParameters", Queries)}
\* No httpMethod at all: event.get("httpMethod", "GET").
DefaultEvents == Opt("queryStringParameters", Queries)
BareEvents(m) == {[x \in {"httpMethod"} |-> PyStr(m)]}

\* ---------------------------------------------------------------- state
VARIABLES
    store,      \* the table: student_id |-> item, for the items it holds
    before,     \* the table when the last invocation began
    req,        \* the event of the last invocation
    resp,       \* the response of the last invocation
    calls,      \* table calls the last invocation issued
    exc,        \* the exception the last invocation's try block caught
    created,    \* the student_ids the bodies of the POSTs so far named
    n,          \* invocations so far
    returned,   \* the handler returned and its response is yet to be delivered
    pc,         \* SpecConc, per caller: where its invocation stands
    ev,         \* SpecConc, per caller: the event of its invocation
    plan,       \* SpecConc, per caller: what the code before the table call decided
    res,        \* SpecConc, per caller: `res`, the table call's result
    ret,        \* SpecConc, per caller: the response returned
    lin,        \* SpecConc, per caller: the response of the one-at-a-time run
    shadow,     \* SpecConc: the table of the one-at-a-time run
    served      \* SpecConc, per caller: invocations begun

seqVars == <<before, req, resp, calls, exc, created, n, returned>>
concVars == <<pc, ev, plan, res, ret, lin, shadow, served>>
vars == <<store, seqVars, concVars>>

\* ------------------------------------------------------------ the table
\* boto3's TypeSerializer: str -> S, int and Decimal -> N; a float raises
\* TypeError before any request is sent.
Serializable(x) == x.t \in {"str", "int", "Decimal"}
Serialize(x) == IF x.t = "str" THEN [t |-> "S", v |-> x.v] ELSE [t |-> "N", v |-> x.v]
\* boto3's TypeDeserializer: S -> str, N -> Decimal.
Deserialize(a) == IF a.t = "S" THEN PyStr(a.v) ELSE PyDecimal(a.v)
FromItem(item) == Dict([k \in DOMAIN item |-> Deserialize(item[k])])

FloatMsg == "Float types are not supported. Use Decimal types instead."
KeyMsg == "An error occurred (ValidationException): invalid key student_id"
ExprMsg == "An error occurred (ValidationException): Invalid UpdateExpression"

Raise(origin, msg, st) ==
    [raised |-> TRUE, origin |-> origin, msg |-> msg, store |-> st, out |-> None]
Done(st, out) ==
    [raised |-> FALSE, origin |-> "", msg |-> "", store |-> st, out |-> out]

\* KeyValid with the type and emptiness checks left out.
KeyValid_present(key) == "student_id" \in DOMAIN key

\* The table's hash key student_id is a string; DynamoDB rejects a key
\* attribute that is missing, of another type or empty.
KeyValid(key) ==
    /\ "student_id" \in DOMAIN key
    /\ key["student_id"].t = "S"
    /\ key["student_id"].v # ""

\* put_item that merges the item into the one the key holds.
put_item_merge(st, item) ==
    IF \E k \in DOMAIN item : ~Serializable(item[k])
    THEN Raise("client", FloatMsg, st)
    ELSE LET it == [k \in DOMAIN item |-> Serialize(item[k])] IN
         IF ~KeyValid(it)
         THEN Raise("store", KeyMsg, st)
         ELSE LET sid == it["student_id"].v
                  old == IF sid \in DOMAIN st THEN st[sid] ELSE it
              IN  Done([k \in DOMAIN st \cup {sid} |->
                          IF k = sid THEN it @@ old ELSE st[k]],
                       None)

\* table.put_item(Item=item): the item replaces whatever the key held.
put_item(st, item) ==
    IF \E k \in DOMAIN item : ~Serializable(item[k])
    THEN Raise("client", FloatMsg, st)
    ELSE LET it == [k \in DOMAIN item |-> Serialize(item[k])] IN
         IF ~KeyValid(it)
         THEN Raise("store", KeyMsg, st)
         ELSE LET sid == it["student_id"].v IN
              Done([k \in DOMAIN st \cup {sid} |-> IF k = sid THEN it ELSE st[k]],
                   None)

\* table.get_item(Key=key): {"Item": ...} when the key holds an item.
get_item(st, key) ==
    LET ky == [k \in DOMAIN key |-> Serialize(key[k])] IN
    IF ~KeyValid(ky)
    THEN Raise("store", KeyMsg, st)
    ELSE LET sid == ky["student_id"].v IN
         Done(st, IF sid \in DOMAIN st
                  THEN Dict([x \in {"Item"} |-> FromItem(st[sid])])
                  ELSE Dict(EmptyMap))

\* An expression token #_k or :k is a sigil followed by letters, digits and
\* underscores.
TokenValid(tok) == tok.name \in WordNames

\* table.update_item(Key, "SET #_k = :k, ...", names, values, ALL_NEW):
\* sets each attribute on the item the key holds, or on a new item holding
\* only the key; returns the item as it is afterwards.
update_item(st, key, expr, names, values) ==
    IF \E k \in DOMAIN key : ~Serializable(key[k])
         \/ \E p \in DOMAIN values : ~Serializable(values[p])
    THEN Raise("client", FloatMsg, st)
    ELSE LET ky == [k \in DOMAIN key |-> Serialize(key[k])] IN
         IF ~KeyValid(ky)
         THEN Raise("store", KeyMsg, st)
         ELSE IF \E e \in expr : ~TokenValid(e[1]) \/ ~TokenValid(e[2])
         THEN Raise("store", ExprMsg, st)
         ELSE LET sid == ky["student_id"].v
                  old == IF sid \in DOMAIN st THEN st[sid] ELSE ky
                  set == [a \in {names[e[1]] : e \in expr} |->
                            LET e == CHOOSE e \in expr : names[e[1]] = a
                            IN  Serialize(values[e[2]])]
                  new == set @@ old
              IN  Done([k \in DOMAIN st \cup {sid} |-> IF k = sid THEN new ELSE st[k]],
                       Dict([x \in {"Attributes"} |-> FromItem(new)]))

\* delete_item that fails when the key holds nothing.
delete_item_strict(st, key) ==
    IF key["student_id"].v \notin DOMAIN st
    THEN Raise("store", "An error occurred (ConditionalCheckFailedException)", st)
    ELSE Done([k \in DOMAIN st \ {key["student_id"].v} |-> st[k]], None)

\* table.delete_item(Key=key): no error when the key holds nothing.
delete_item(st, key) ==
    LET ky == [k \in DOMAIN key |-> Serialize(key[k])] IN
    IF ~KeyValid(ky)
    THEN Raise("store", KeyMsg, st)
    ELSE LET sid == ky["student_id"].v IN
         Done([k \in DOMAIN st \ {sid} |-> st[k]], None)

\* The network between the handler and the table.  "none": the call goes
\* through.  "unreachable": the request never arrives.  "timeout": the
\* request is served and its reply is lost.  A client-side error is raised
\* before anything is sent.
Faults == {"unreachable", "timeout"}
StoreCall(r, st, fault) ==
    IF r.raised /\ r.origin = "client" THEN r
    ELSE IF fault = "unreachable"
    THEN Raise("store", "Could not connect to the endpoint URL", st)
    ELSE IF fault = "timeout"
    THEN Raise("store", "Read timeout on endpoint URL", r.store)
    ELSE r

\* ----------------------------------------------------------- the handler
Headers ==
    ("Content-Type" :> "application/json")
        @@ ("Access-Control-Allow-Origin" :> "*")
        @@ ("Access-Control-Allow-Headers" :> "Content-Type,Authorization")
        @@ ("Access-Control-Allow-Methods" :> "GET,POST,PUT,DELETE,OPTIONS")

\* _resp with `if body` for `if body is not None`.
_resp_falsy(status, body) ==
    [statusCode |-> status,
     headers |-> Headers,
     body |-> IF Truthy(body) THEN json_dumps(body) ELSE EmptyStr]

\* _resp(status, body), for a body json.dumps can encode.
_resp(status, body) ==
    [statusCode |-> status,
     headers |-> Headers,
     body |-> IF body # None THEN json_dumps(body) ELSE EmptyStr]

ErrorDoc(msg) == Dict([x \in {"error"} |-> PyStr(msg)])
MessageDoc(msg, student) ==
    Dict(("message" :> PyStr(msg)) @@ ("student" :> student))
Required == ErrorDoc("student_id is required")

\* What the code of a branch before its table call comes to: a response to
\* return, an exception, or the table call to issue.
Respond(status, doc) == [kind |-> "respond", status |-> status, doc |-> doc]
Throw(origin, msg) == [kind |-> "raise", origin |-> origin, msg |-> msg]

\* What an invocation's try block comes to: a response returned or an
\* exception raised, with the table as it left it and the table calls issued.
Raised(origin, msg, st, c) ==
    [raised |-> TRUE, origin |-> origin, msg |-> msg, response |-> None,
     store |-> st, calls |-> c]
\* return _resp(status, body): json.dumps runs inside the try block.
Return(status, body, st, c) ==
    IF HasDecimal(body)
    THEN Raised("json.dumps", DecimalMsg, st, c)
    ELSE [raised |-> FALSE, origin |-> "", msg |-> "",
          response |-> _resp(status, body), store |-> st, calls |-> c]

\* The membership test left out.
NotIn_never(k, x) == FALSE

\* `"student_id" not in payload` for a dict or a list.
NotIn(k, x) ==
    IF x.t = "dict" THEN k \notin DOMAIN x.v
    ELSE \A i \in 1..Len(x.v) : x.v[i] # PyStr(k)

KeyOf(sid) == [x \in {"student_id"} |-> sid]

\* json.loads(event.get("body") or "{}")
LoadBody(event) == json_loads(TextOr(Get(event, "body"), JsonText(Dict(EmptyMap))))
\* (event.get("queryStringParameters") or {}).get("student_id")
QuerySid(event) ==
    Get(Or(Get(event, "queryStringParameters"), Dict(EmptyMap)).v, "student_id")

PostPlan(event) ==
    LET parsed == LoadBody(event) IN
    IF parsed.raised THEN Throw("json.loads", parsed.msg)
    ELSE IF NotIn("student_id", parsed.value) THEN Respond(400, Required)
    ELSE [kind |-> "call", op |-> "put_item", item |-> parsed.value.v]

GetPlan(event) ==
    LET sid == QuerySid(event) IN
    IF ~Truthy(sid) THEN Respond(400, Required)
    ELSE [kind |-> "call", op |-> "get_item", key |-> KeyOf(sid)]

NameTok(k) == [sigil |-> "#_", name |-> k]
ValueTok(k) == [sigil |-> ":", name |-> k]

PutPlan(event) ==
    LET parsed == LoadBody(event) IN
    IF parsed.raised THEN Throw("json.loads", parsed.msg)
    ELSE IF parsed.value.t # "dict"
    THEN Throw("python", "'list' object has no attribute 'get'")
    ELSE LET payload == parsed.value.v
             sid == Get(payload, "student_id")
             ks == DOMAIN payload \ {"student_id"}
         IN  IF ~Truthy(sid) THEN Respond(400, Required)
             ELSE IF ks = {} THEN Respond(400, ErrorDoc("no fields to update"))
             ELSE [kind |-> "call", op |-> "update_item", key |-> KeyOf(sid),
                   expr |-> {<<NameTok(k), ValueTok(k)>> : k \in ks},
                   names |-> [tk \in {NameTok(k) : k \in ks} |-> tk.name],
                   values |-> [tk \in {ValueTok(k) : k \in ks} |-> payload[tk.name]]]

DeletePlan(event) ==
    LET sid == QuerySid(event) IN
    IF ~Truthy(sid) THEN Respond(400, Required)
    ELSE [kind |-> "call", op |-> "delete_item", key |-> KeyOf(sid)]

\* The dispatch on event.get("httpMethod", "GET"), up to the table call.
Plan(event) ==
    LET method == GetOr(event, "httpMethod", PyStr("GET")) IN
    CASE method = PyStr("OPTIONS") -> Respond(200, Dict(EmptyMap))
      [] method = PyStr("POST") -> PostPlan(event)
      [] method = PyStr("GET") -> GetPlan(event)
      [] method = PyStr("PUT") -> PutPlan(event)
      [] method = PyStr("DELETE") -> DeletePlan(event)
      [] OTHER -> Respond(405, ErrorDoc("method not allowed"))

\* The one table call of a branch.
Perform(pl, st, fault) ==
    StoreCall(CASE pl.op = "put_item" -> put_item(st, pl.item)
                [] pl.op = "get_item" -> get_item(st, pl.key)
                [] pl.op = "update_item" ->
                     update_item(st, pl.key, pl.expr, pl.names, pl.values)
                [] OTHER -> delete_item(st, pl.key),
              st, fault)

\* The code of a branch after its table call returned r.
Conclude(pl, r) ==
    IF r.raised THEN Raised(r.origin, r.msg, r.store, 1)
    ELSE CASE pl.op = "put_item" ->
                Return(200, MessageDoc("Student record created", Dict(pl.item)),
                       r.store, 1)
           [] pl.op = "get_item" ->
                IF ~Truthy(Get(r.out.v, "Item"))
                THEN Return(404, ErrorDoc("not found"), r.store, 1)
                ELSE Return(200, r.out.v["Item"], r.store, 1)
           [] pl.op = "update_item" ->
                Return(200,
                       MessageDoc("Student record updated", r.out.v["Attributes"]),
                       r.store, 1)
           [] OTHER ->
                Return(200,
                       Dict([x \in {"message"} |->
                               PyStr("Student " \o pl.key["student_id"].v
                                       \o " deleted")]),
                       r.store, 1)

\* What came of the plan when no table call was to be issued.
Direct(pl, st) ==
    IF pl.kind = "raise" THEN Raised(pl.origin, pl.msg, st, 0)
    ELSE Return(pl.status, pl.doc, st, 0)

NoExc == [origin |-> "", msg |-> ""]

\* An except clause that hides the exception's message.
Except_generic(t) ==
    [response |-> _resp(500, ErrorDoc("internal error")), store |-> t.store,
     calls |-> t.calls, exc |-> [origin |-> t.origin, msg |-> t.msg]]

\* except Exception as e: return _resp(500, {"error": str(e)})
Except(t) ==
    [response |-> _resp(500, ErrorDoc(t.msg)), store |-> t.store,
     calls |-> t.calls, exc |-> [origin |-> t.origin, msg |-> t.msg]]

\* The end of an invocation: the response returned, or the except clause.
Finish(t) ==
    IF t.raised THEN Except(t)
    ELSE [response |-> t.response, store |-> t.store, calls |-> t.calls,
          exc |-> NoExc]

lambda_handler(event, st, fault) ==
    LET pl == Plan(event) IN
    Finish(IF pl.kind = "call" THEN Conclude(pl, Perform(pl, st, fault))
           ELSE Direct(pl, st))

\* ------------------------------------------------- sequential invocations
Callers == {1, 2}
Idle == [p \in Callers |-> None]

Init ==
    /\ store = EmptyMap
    /\ before = EmptyMap
    /\ req = EmptyMap
    /\ resp = None
    /\ calls = 0
    /\ exc = NoExc
    /\ created = {}
    /\ n = 0
    /\ returned = FALSE
    /\ pc = [p \in Callers |-> "idle"]
    /\ ev = Idle
    /\ plan = Idle
    /\ res = Idle
    /\ ret = Idle
    /\ lin = Idle
    /\ shadow = EmptyMap
    /\ served = [p \in Callers |-> 0]

\* The student_id a POST's body names, when it is one a GET can ask for.
Named(event) ==
    IF GetOr(event, "httpMethod", PyStr("GET")) # PyStr("POST") THEN {}
    ELSE LET parsed == LoadBody(event) IN
         IF parsed.raised \/ parsed.value.t # "dict" THEN {}
         ELSE {x.v : x \in {Get(parsed.value.v, "student_id")} \cap
                             {PyStr(s) : s \in Ids}}

\* One invocation of lambda_handler, from the event to the response.
Invoke(event, fault) ==
    /\ n < MaxRequests
    /\ \E r \in {lambda_handler(event, store, fault)} :
         /\ store' = r.store
         /\ resp' = r.response
         /\ calls' = r.calls
         /\ exc' = r.exc
    /\ before' = store
    /\ req' = event
    /\ created' = created \cup Named(event)
    /\ n' = n + 1
    /\ returned' = TRUE
    /\ UNCHANGED concVars

\* The runtime hands the response to the caller; nothing of the invocation
\* but the table outlives it (the handler keeps no state between calls).
Deliver ==
    /\ returned
    /\ returned' = FALSE
    /\ before' = store
    /\ req' = EmptyMap
    /\ resp' = None
    /\ calls' = 0
    /\ exc' = NoExc
    /\ UNCHANGED <<store, created, n, concVars>>

PostEvents == BodyEvents("POST")
PutEvents == BodyEvents("PUT")
GetEvents == QueryEvents("GET") \cup DefaultEvents
DeleteEvents == QueryEvents("DELETE")
OptionsEvents == BareEvents("OPTIONS")
UnknownEvents == BareEvents("PATCH")

Options == ~returned /\ \E e \in OptionsEvents : Invoke(e, "none")
Post == ~returned /\ \E e \in PostEvents : Invoke(e, "none")
Read == ~returned /\ \E e \in GetEvents : Invoke(e, "none")
Put == ~returned /\ \E e \in PutEvents : Invoke(e, "none")
Delete == ~returned /\ \E e \in DeleteEvents : Invoke(e, "none")
Unknown == ~returned /\ \E e \in UnknownEvents : Invoke(e, "none")

Next == Options \/ Post \/ Read \/ Put \/ Delete \/ Unknown \/ Deliver

Spec == Init /\ [][Next]_vars

\* ------------------------------------------- invocations over a bad network
FailedPost ==
    ~returned /\ \E e \in PostEvents, f \in Faults : Invoke(e, f)
FailedRead ==
    ~returned /\ \E e \in GetEvents, f \in Faults : Invoke(e, f)
FailedPut ==
    ~returned /\ \E e \in PutEvents, f \in Faults : Invoke(e, f)
FailedDelete ==
    ~returned /\ \E e \in DeleteEvents, f \in Faults : Invoke(e, f)

NextFaults == Next \/ FailedPost \/ FailedRead \/ FailedPut \/ FailedDelete

SpecFaults == Init /\ [][NextFaults]_vars

\* ------------------------------------------------ concurrent invocations
\* Each caller runs lambda_handler in a process of its own; the table is all
\* they share, and each table call is atomic.
Body(p) == [x \in {"body"} |-> JsonText(Dict(p))]
Query(s) == [x \in {"queryStringParameters"} |->
               Dict([y \in {"student_id"} |-> PyStr(s)])]
Method(m) == [x \in {"httpMethod"} |-> PyStr(m)]
ConcEvents ==
    {Method("POST") @@ Body(("student_id" :> PyStr("s1")) @@ ("name" :> PyStr("Ann"))),
     Method("POST") @@ Body(("student_id" :> PyStr("s1")) @@ ("grade" :> PyStr("A"))),
     Method("PUT") @@ Body(("student_id" :> PyStr("s1")) @@ ("name" :> PyStr("Bob"))),
     Method("PUT") @@ Body(("student_id" :> PyStr("s2")) @@ ("grade" :> PyInt("1"))),
     Method("PUT") @@ Body("student_id" :> PyStr("s1")),
     Method("GET") @@ Query("s1"),
     Method("GET") @@ Query("s2"),
     Method("DELETE") @@ Query("s1"),
     Method("OPTIONS"),
     Method("PATCH")}

\* The table asked again when the response is built.
Result_refetch(p) == Perform(plan[p], store, "none")

\* `res`, the handler's local that holds the table call's result.
Result(p) == res[p]

\* What the caller is handed: the response and the table calls behind it.
Handed(f) == [response |-> f.response, calls |-> f.calls]

\* The caller's invocation starts and runs up to its table call, or to its
\* return when it issues none.
Begin(p) ==
    /\ pc[p] \in {"idle", "done"}
    /\ served[p] < MaxInvocations
    /\ \E e \in ConcEvents :
         \E pl \in {Plan(e)} :
           /\ ev' = [ev EXCEPT ![p] = e]
           /\ plan' = [plan EXCEPT ![p] = pl]
           /\ res' = [res EXCEPT ![p] = None]
           /\ IF pl.kind = "call"
              THEN /\ pc' = [pc EXCEPT ![p] = "call"]
                   /\ ret' = [ret EXCEPT ![p] = None]
                   /\ lin' = [lin EXCEPT ![p] = None]
              ELSE /\ pc' = [pc EXCEPT ![p] = "done"]
                   /\ ret' = [ret EXCEPT ![p] = Handed(Finish(Direct(pl, store)))]
                   /\ lin' = [lin EXCEPT ![p] =
                                Handed(lambda_handler(e, shadow, "none"))]
    /\ served' = [served EXCEPT ![p] = @ + 1]
    /\ UNCHANGED <<store, shadow, seqVars>>

\* The table serves the caller's call.  The one-at-a-time run serves the
\* whole invocation here.
Call(p) ==
    /\ pc[p] = "call"
    /\ \E r \in {Perform(plan[p], store, "none")},
          s \in {lambda_handler(ev[p], shadow, "none")} :
         /\ store' = r.store
         /\ res' = [res EXCEPT ![p] = r]
         /\ shadow' = s.store
         /\ lin' = [lin EXCEPT ![p] = Handed(s)]
    /\ pc' = [pc EXCEPT ![p] = "return"]
    /\ UNCHANGED <<ev, plan, ret, served, seqVars>>

\* The caller's invocation runs from the table call's result to its return.
Finished(p) ==
    /\ pc[p] = "return"
    /\ ret' = [ret EXCEPT ![p] = Handed(Finish(Conclude(plan[p], Result(p))))]
    /\ pc' = [pc EXCEPT ![p] = "done"]
    /\ UNCHANGED <<store, shadow, ev, plan, res, lin, served, seqVars>>

NextConc == \E p \in Callers : Begin(p) \/ Call(p) \/ Finished(p)

SpecConc == Init /\ [][NextConc]_vars

\* ---------------------------------------------------------------- claims
\* The last invocation, read off the event as the caller wrote it.
LastMethod == GetOr(req, "httpMethod", PyStr("GET")).v
\* The body is absent, empty or the text of a JSON object.
BodyIsMapping ==
    \/ "body" \notin DOMAIN req
    \/ req["body"] = EmptyStr
    \/ req["body"].syntax = "json" /\ req["body"].value.t = "dict"
BodyMap ==
    IF "body" \notin DOMAIN req \/ req["body"] = EmptyStr THEN EmptyMap
    ELSE req["body"].value.v
HasQuerySid ==
    /\ "queryStringParameters" \in DOMAIN req
    /\ req["queryStringParameters"] # None
    /\ "student_id" \in DOMAIN req["queryStringParameters"].v
AskedSid == req["queryStringParameters"].v["student_id"].v
Supplied == DOMAIN BodyMap \ {"student_id"}
\* The response to a GET for s issued next.
NextGet(s) == lambda_handler(Method("GET") @@ Query(s), store, "none").response

\* C1: a POST of a mapping with student_id that returned 200 is followed by a
\* GET of that id returning 200 with a record that holds every submitted
\* field with the submitted value.
C1_ReadAfterCreate ==
    (/\ returned
     /\ LastMethod = "POST"
     /\ BodyIsMapping
     /\ "student_id" \in DOMAIN BodyMap
     /\ resp.statusCode = 200)
        => LET g == NextGet(BodyMap["student_id"].v) IN
           /\ g.statusCode = 200
           /\ \A k \in DOMAIN BodyMap :
                /\ k \in DOMAIN g.body.value.v
                /\ g.body.value.v[k] = BodyMap[k]

\* C2: while no POST was issued for a student_id, a GET for it returns 404.
C2_NeverCreated404 ==
    \A s \in Ids : s \notin created => NextGet(s).statusCode = 404

\* C3: a DELETE with a non-empty student_id returns 200 whether or not the
\* key held a record; afterwards the key holds none (a GET returns 404), the
\* other records are as they were, and the same DELETE again gives the same
\* status and the same table.
C3_DeleteIdempotent ==
    (returned /\ LastMethod = "DELETE" /\ HasQuerySid /\ AskedSid # "")
        => /\ resp.statusCode = 200
           /\ AskedSid \notin DOMAIN store
           /\ NextGet(AskedSid).statusCode = 404
           /\ DOMAIN store = DOMAIN before \ {AskedSid}
           /\ \A k \in DOMAIN store : store[k] = before[k]
           /\ \E again \in {lambda_handler(req, store, "none")} :
                /\ again.response.statusCode = resp.statusCode
                /\ again.store = store

C3_Witness ==
    /\ returned
    /\ LastMethod = "DELETE"
    /\ HasQuerySid
    /\ AskedSid \in DOMAIN before
    /\ DOMAIN store # {}
    /\ resp.statusCode = 200

\* C4: a PUT with student_id and other fields on an existing record sets
\* each supplied field, leaves the record's other fields and the other
\* records as they were, and returns 200 with the whole record as it is
\* afterwards.
C4_PartialUpdate ==
    (/\ returned
     /\ LastMethod = "PUT"
     /\ BodyIsMapping
     /\ "student_id" \in DOMAIN BodyMap
     /\ BodyMap["student_id"].t = "str"
     /\ BodyMap["student_id"].v \in DOMAIN before
     /\ Supplied # {})
        => LET s == BodyMap["student_id"].v IN
           /\ resp.statusCode = 200
           /\ DOMAIN store = DOMAIN before
           /\ \A k \in DOMAIN store \ {s} : store[k] = before[k]
           /\ DOMAIN store[s] = DOMAIN before[s] \cup Supplied
           /\ \A k \in Supplied : store[s][k].v = BodyMap[k].v
           /\ \A k \in DOMAIN before[s] \ Supplied : store[s][k] = before[s][k]
           /\ "student" \in DOMAIN resp.body.value.v
           /\ DOMAIN resp.body.value.v["student"].v = DOMAIN store[s]
           /\ \A k \in DOMAIN store[s] :
                resp.body.value.v["student"].v[k].v = store[s][k].v

\* C5: a POST or PUT whose body has no student_id, a GET or DELETE whose
\* query has none, and a PUT whose body has student_id and nothing else
\* return 400 without a table call: the table is as it was.
C5_Case ==
    \/ LastMethod \in {"POST", "PUT"} /\ BodyIsMapping
         /\ "student_id" \notin DOMAIN BodyMap
    \/ LastMethod \in {"GET", "DELETE"} /\ ~HasQuerySid
    \/ LastMethod = "PUT" /\ BodyIsMapping /\ DOMAIN BodyMap = {"student_id"}

C5_ValidationRejects ==
    (returned /\ C5_Case)
        => resp.statusCode = 400 /\ calls = 0 /\ store = before

C5_Witness ==
    /\ returned
    /\ LastMethod = "PUT"
    /\ BodyIsMapping
    /\ DOMAIN BodyMap = {"student_id"}
    /\ BodyMap["student_id"].v \in DOMAIN store
    /\ resp.statusCode = 400

CorsHeadersSent ==
    /\ DOMAIN resp.headers =
         {"Content-Type", "Access-Control-Allow-Origin",
          "Access-Control-Allow-Headers", "Access-Control-Allow-Methods"}
    /\ resp.headers["Content-Type"] = "application/json"
    /\ resp.headers["Access-Control-Allow-Origin"] = "*"
    /\ resp.headers["Access-Control-Allow-Headers"] = "Content-Type,Authorization"
    /\ resp.headers["Access-Control-Allow-Methods"] = "GET,POST,PUT,DELETE,OPTIONS"

C8_StoreFailure ==
    (returned /\ exc.origin \in {"store", "client"})
        => /\ resp.statusCode = 500
           /\ resp.body.syntax = "json"
           /\ resp.body.value = Dict([x \in {"error"} |-> PyStr(exc.msg)])
           /\ exc.msg # ""
           /\ calls = 1
           /\ (store = before \/ store = lambda_handler(req, before, "none").store)

C8_Witness ==
    /\ returned
    /\ exc.origin = "store"
    /\ LastMethod = "PUT"
    /\ store # before
    /\ resp.statusCode = 500

\* C9: a POST on a student_id that has a record replaces the record: after
\* the 200 the stored record is the submitted mapping and nothing else, and
\* a GET returns no field the new body lacks.
C9_PostOverwrites ==
    (/\ returned
     /\ LastMethod = "POST"
     /\ BodyIsMapping
     /\ resp.statusCode = 200)
        => /\ "student_id" \in DOMAIN BodyMap
           /\ \E s \in {BodyMap["student_id"].v} :
                /\ s \in DOMAIN store
                /\ DOMAIN store[s] = DOMAIN BodyMap
                /\ \A k \in DOMAIN BodyMap :
                     /\ store[s][k].v = BodyMap[k].v
                     /\ (store[s][k].t = "S") = (BodyMap[k].t = "str")
                /\ \E g \in {NextGet(s)} :
                     g.statusCode = 200
                        => DOMAIN g.body.value.v = DOMAIN BodyMap

C9_Witness ==
    /\ returned
    /\ LastMethod = "POST"
    /\ BodyIsMapping
    /\ resp.statusCode = 200
    /\ BodyMap["student_id"].v \in DOMAIN before
    /\ DOMAIN before[BodyMap["student_id"].v] \ DOMAIN BodyMap # {}
    /\ NextGet(BodyMap["student_id"].v).statusCode = 200

\* C10: an invocation issues one table call when its request passes
\* validation and none otherwise, and under every interleaving of the
\* callers the table and each response are those of the run that serves the
\* invocations one at a time, in the order of their table calls.
C10_Linearizable ==
    /\ store = shadow
    /\ \A p \in Callers :
         pc[p] = "done"
            => /\ ret[p] = lin[p]
               /\ ret[p].calls \in {0, 1}
               /\ (ret[p].calls = 0) =
                    \/ ret[p].response.statusCode \in {400, 405}
                    \/ GetOr(ev[p], "httpMethod", PyStr("GET")) = PyStr("OPTIONS")

C10_Witness ==
    \E p \in Callers, q \in Callers :
        /\ p # q
        /\ pc[p] = "done"
        /\ pc[q] = "done"
        /\ GetOr(ev[p], "httpMethod", PyStr("GET")) = PyStr("GET")
        /\ ret[p].response.statusCode = 404
        /\ "s1" \in DOMAIN store
        /\ ev[p]["queryStringParameters"].v["student_id"] = PyStr("s1")

=============================================================================
